---- MODULE Spec2Model ----
(***************************************************************************)
(* SpidyMQ client connection (lib/connection.js).                          *)
(*                                                                         *)
(* One Connection object: the connectivity flag, the routing table of      *)
(* subscribers, the outbound requests that wait for the broker's answer,   *)
(* and the inbound dispatcher.  Strings that the code takes apart or puts  *)
(* together (channel names, urls) are sequences of one-character strings.  *)
(* Every action is one synchronous run of a method or of an event handler  *)
(* of the code; `last` records what that run did that the caller, the      *)
(* application callbacks or the broker can observe.                        *)
(*                                                                         *)
(* Environment: the request library answers a request at most once, with   *)
(* a 'response' event carrying a status code or with an 'error' event;     *)
(* it may also never answer.  Channel names are ordinary strings, none of  *)
(* them the name of a member of Object.prototype.  Under Spec the broker   *)
(* answers with any status; BrokerSpec gives it a state of its own, the    *)
(* set `registered` of the channels it holds a push target for.            *)
(***************************************************************************)
EXTENDS Integers, Sequences, FiniteSets, Bags, TLC

VARIABLES connected, subscribers, inflight, last, registered

vars == <<connected, subscribers, inflight, last, registered>>

(***************************************************************************)
(* Bounds and input sets                                                   *)
(***************************************************************************)
\* Number of outbound requests that wait for their answer at one time.
MaxInFlight == 2

\* Channel names an application subscribes to and the broker pushes to;
\* <<>> is the empty (falsy) name.
ChannelNames == {<< >>, <<"a">>, <<"b">>}

\* Channel names an application creates and publishes to.
PlainNames == {<< >>, <<"a">>}

\* Notify callbacks; "null" is a missing callback.
NotifyFns == {"f1", "f2"}
NotifyArgs == NotifyFns \cup {"null"}

\* Message bodies the broker pushes.
Payloads == {"p1", "p2"}

\* Content arguments of publishMessage; "null" is null or undefined.
Contents == {"null", "c1"}

\* options.type of createChannel.
ChannelTypes == {"round-robin"}

\* Status codes the broker answers with.
StatusCodes == {200, 304, 400, 500}

(***************************************************************************)
(* Strings                                                                 *)
(***************************************************************************)
\* config.serverUrl as the tests pass it (with a trailing '/') and the default
\* mount path, shortened.
ConfigServerUrl == <<"h", "/">>
MountPath == <<"/", "q">>

\* serverUrl without its trailing '/'.
StripTrailingSlash(s) ==
    IF Len(s) > 0 /\ s[Len(s)] = "/" THEN SubSeq(s, 1, Len(s) - 1) ELSE s

NotifyBaseUrl == StripTrailingSlash(ConfigServerUrl) \o MountPath

NotifyUrl(channelName) == NotifyBaseUrl \o <<"/">> \o channelName

\* url.split('/').pop(): what follows the last '/', the whole url if it has none.
RECURSIVE LastSegment(_)
LastSegment(url) ==
    IF Len(url) = 0 THEN << >>
    ELSE IF url[Len(url)] = "/" THEN << >>
    ELSE LastSegment(SubSeq(url, 1, Len(url) - 1)) \o <<url[Len(url)]>>

\* The paths the broker pushes messages to.
InboundUrls == {MountPath \o <<"/">> \o n : n \in ChannelNames}

(***************************************************************************)
(* The routing table: own keys in insertion order                          *)
(***************************************************************************)
RECURSIVE Has(_, _)
Has(subs, channelName) ==
    IF subs = << >> THEN FALSE
    ELSE Head(subs).name = channelName \/ Has(Tail(subs), channelName)

RECURSIVE Get(_, _)
Get(subs, channelName) ==
    IF subs = << >> THEN "null"
    ELSE IF Head(subs).name = channelName THEN Head(subs).fn
    ELSE Get(Tail(subs), channelName)

\* A delete that empties the table.
Delete_Clears(subs, channelName) == << >>

RECURSIVE Delete(_, _)
Delete(subs, channelName) ==
    IF subs = << >> THEN << >>
    ELSE IF Head(subs).name = channelName THEN Delete(Tail(subs), channelName)
    ELSE <<Head(subs)>> \o Delete(Tail(subs), channelName)

RECURSIVE Put(_, _, _)
Put(subs, channelName, notifyFn) ==
    IF subs = << >> THEN <<[name |-> channelName, fn |-> notifyFn]>>
    ELSE IF Head(subs).name = channelName
         THEN <<[name |-> channelName, fn |-> notifyFn]>> \o Tail(subs)
    ELSE <<Head(subs)>> \o Put(Tail(subs), channelName, notifyFn)

(***************************************************************************)
(* Observations                                                            *)
(***************************************************************************)
\* res of an inbound request before the dispatcher touches it.
NewRes == [statusCode |-> 0, ended |-> 0]

End(res) == [res EXCEPT !.ended = @ + 1]

\* What one run of a method or handler did:
\*   ev        the method or event
\*   name, fn, content, payload   its arguments
\*   thrown    the message of the Error it threw, "" if none
\*   sent      the requests it sent, in order
\*   answered  the request whose answer it handled (at most one)
\*   status    the status code of that answer, 0 for an 'error' event
\*   dones     the calls of the application's completion callback, each with
\*             its arguments and the object's fields at that moment
\*   notified  the calls of notify callbacks
\*   res       the response of the inbound request
NoEvent ==
    [ev |-> "init", name |-> << >>, fn |-> "null", content |-> "null",
     payload |-> "null", thrown |-> "", sent |-> << >>, answered |-> << >>,
     status |-> 0, dones |-> << >>, notified |-> << >>, res |-> NewRes]

Call(ev, name) == [NoEvent EXCEPT !.ev = ev, !.name = name]

Throw(e, msg) == [e EXCEPT !.thrown = msg]

\* A done that is dropped once the connection is no longer connected.
Done_OnlyWhileConnected(e, c, hasDone, error, result) ==
    IF hasDone /\ c.connected
    THEN [e EXCEPT !.dones = Append(@, [error |-> error, result |-> result,
                                        connected |-> c.connected,
                                        subscribers |-> c.subscribers])]
    ELSE e

\* done(error, result): the application's callback runs only if one was given
\* (done = done || function() {}).
Done(e, c, hasDone, error, result) ==
    IF hasDone
    THEN [e EXCEPT !.dones = Append(@, [error |-> error, result |-> result,
                                        connected |-> c.connected,
                                        subscribers |-> c.subscribers])]
    ELSE e

(***************************************************************************)
(* Requests                                                                *)
(***************************************************************************)
\* One outbound POST that waits for its answer: the url's path, the json body
\* (name or channel, notifyUrl, type, content) and what its handlers close
\* over (the channel name and done).  fn is the notify callback of the call
\* that sent it; intact says that no unsubscribeChannel of its channel and no
\* disconnect ran since; held says that, moreover, no handler of a failure
\* answer to a subscribe request for its channel ran since, so that the entry
\* its call inserted is still in the table.  remote and rivals are kept where
\* the broker is modelled: whether the broker held a registration for the
\* channel when the call was accepted, and the paths of the other subscribe
\* and unsubscribe requests for the channel that waited while this one did.
Request(path, name, notifyUrl, type, content, fn, hasDone) ==
    [path |-> path, name |-> name, notifyUrl |-> notifyUrl, type |-> type,
     content |-> content, fn |-> fn, hasDone |-> hasDone, intact |-> TRUE,
     held |-> TRUE, remote |-> FALSE, rivals |-> {}]

\* A _handleResponse that takes every success for a no-op.
handleResponse_AlwaysFalse(statusCode) ==
    IF statusCode = 200 \/ statusCode = 304
    THEN [error |-> "null", result |-> "false"]
    ELSE IF statusCode = 400 THEN [error |-> "Bad request", result |-> "null"]
    ELSE [error |-> "Server error", result |-> "null"]

\* _handleResponse: the arguments of done for a status code.
handleResponse(statusCode) ==
    IF statusCode = 200 THEN [error |-> "null", result |-> "true"]
    ELSE IF statusCode = 304 THEN [error |-> "null", result |-> "false"]
    ELSE IF statusCode = 400 THEN [error |-> "Bad request", result |-> "null"]
    ELSE [error |-> "Server error", result |-> "null"]

\* The literal fault the request library hands to an 'error' handler.
NetworkFault == "ECONNREFUSED"

(***************************************************************************)
(* The methods of Connection, as functions from the object's fields         *)
(* c = [connected, subscribers] and the arguments to the fields afterwards  *)
(* (conn) and what the run did (ev).                                        *)
(***************************************************************************)
Send(e, req) == [e EXCEPT !.sent = Append(@, req)]

\* connect without its check of _connected.
connect_NoGuard(c, hasDone) ==
    LET c1 == [c EXCEPT !.connected = TRUE]
    IN [conn |-> c1, ev |-> Done(Call("connect", << >>), c1, hasDone, "null", "true")]

connect(c, hasDone) ==
    LET e == Call("connect", << >>) IN
    IF c.connected
    THEN [conn |-> c, ev |-> Throw(e, "Connection already established")]
    ELSE LET c1 == [c EXCEPT !.connected = TRUE]
         IN [conn |-> c1, ev |-> Done(e, c1, hasDone, "null", "true")]

\* unsubscribeChannel that leaves the entry until the broker has answered.
unsubscribeChannel_KeepsEntry(c, channelName, hasDone) ==
    LET e == Call("unsubscribeChannel", channelName) IN
    IF ~c.connected
    THEN [conn |-> c, ev |-> Throw(e, "Connection not established")]
    ELSE IF channelName = << >>
    THEN [conn |-> c,
          ev |-> Throw(e, "Cannot unsubscibe from a channel without a name")]
    ELSE [conn |-> c,
          ev |-> Send(e, Request("/unsubscribe", channelName,
                                 NotifyUrl(channelName), "", "null", "null",
                                 hasDone))]

\* unsubscribeChannel that refuses a channel that is no key of the table.
unsubscribeChannel_ChecksTable(c, channelName, hasDone) ==
    LET e == Call("unsubscribeChannel", channelName) IN
    IF ~c.connected
    THEN [conn |-> c, ev |-> Throw(e, "Connection not established")]
    ELSE IF channelName = << >>
    THEN [conn |-> c,
          ev |-> Throw(e, "Cannot unsubscibe from a channel without a name")]
    ELSE IF ~Has(c.subscribers, channelName)
    THEN [conn |-> c, ev |-> Throw(e, "Not subscribed to this channel")]
    ELSE [conn |-> [c EXCEPT !.subscribers = Delete(@, channelName)],
          ev |-> Send(e, Request("/unsubscribe", channelName,
                                 NotifyUrl(channelName), "", "null", "null",
                                 hasDone))]

unsubscribeChannel(c, channelName, hasDone) ==
    LET e == Call("unsubscribeChannel", channelName) IN
    IF ~c.connected
    THEN [conn |-> c, ev |-> Throw(e, "Connection not established")]
    ELSE IF channelName = << >>
    THEN [conn |-> c,
          ev |-> Throw(e, "Cannot unsubscibe from a channel without a name")]
    ELSE [conn |-> [c EXCEPT !.subscribers = Delete(@, channelName)],
          ev |-> Send(e, Request("/unsubscribe", channelName,
                                 NotifyUrl(channelName), "", "null", "null",
                                 hasDone))]

\* The loop of disconnect, left after its first channel.
UnsubscribeAll_FirstOnly(c, keys, e) ==
    IF keys = << >> THEN [conn |-> c, ev |-> e]
    ELSE [conn |-> [c EXCEPT !.subscribers = Delete(@, Head(keys))],
          ev |-> Send(e, Request("/unsubscribe", Head(keys),
                                 NotifyUrl(Head(keys)), "", "null", "null",
                                 FALSE))]

\* for( channelName in this._subscribers ) this.unsubscribeChannel(channelName):
\* keys are the own keys when the loop starts; a key deleted before its turn
\* is skipped; an exception leaves the loop.
RECURSIVE UnsubscribeAll(_, _, _)
UnsubscribeAll(c, keys, e) ==
    IF keys = << >> THEN [conn |-> c, ev |-> e]
    ELSE IF ~Has(c.subscribers, Head(keys)) THEN UnsubscribeAll(c, Tail(keys), e)
    ELSE LET out == unsubscribeChannel(c, Head(keys), FALSE)
             e1 == [e EXCEPT !.sent = @ \o out.ev.sent]
         IN IF out.ev.thrown # ""
            THEN [conn |-> out.conn, ev |-> Throw(e1, out.ev.thrown)]
            ELSE UnsubscribeAll(out.conn, Tail(keys), e1)

\* A disconnect that leaves the report of its completion to the answers of
\* its unsubscribe requests.
disconnect_ReportsLater(c, hasDone) ==
    LET e == Call("disconnect", << >>) IN
    IF ~c.connected
    THEN [conn |-> c, ev |-> Throw(e, "Connection already disconnected")]
    ELSE LET keys == [i \in 1..Len(c.subscribers) |-> c.subscribers[i].name]
             out == UnsubscribeAll(c, keys, e)
         IN IF out.ev.thrown # "" THEN out
            ELSE IF keys = << >>
            THEN LET c1 == [out.conn EXCEPT !.connected = FALSE]
                 IN [conn |-> c1, ev |-> Done(out.ev, c1, hasDone, "null", "true")]
            ELSE [conn |-> [out.conn EXCEPT !.connected = FALSE], ev |-> out.ev]

disconnect(c, hasDone) ==
    LET e == Call("disconnect", << >>) IN
    IF ~c.connected
    THEN [conn |-> c, ev |-> Throw(e, "Connection already disconnected")]
    ELSE LET keys == [i \in 1..Len(c.subscribers) |-> c.subscribers[i].name]
             out == UnsubscribeAll(c, keys, e)
         IN IF out.ev.thrown # "" THEN out
            ELSE LET c1 == [out.conn EXCEPT !.connected = FALSE]
                 IN [conn |-> c1, ev |-> Done(out.ev, c1, hasDone, "null", "true")]

createChannel(c, name, type, hasDone) ==
    LET e == Call("createChannel", name) IN
    IF ~c.connected
    THEN [conn |-> c, ev |-> Throw(e, "Connection not established")]
    ELSE IF name = << >>
    THEN [conn |-> c, ev |-> Throw(e, "Cannot create a channel without a name")]
    ELSE [conn |-> c,
          ev |-> Send(e, Request("/channel", name, << >>, type, "null", "null",
                                 hasDone))]

\* subscribeChannel that validates its arguments before it looks at _connected.
subscribeChannel_ArgumentsFirst(c, channelName, notifyFn, hasDone) ==
    LET e == [Call("subscribeChannel", channelName) EXCEPT !.fn = notifyFn] IN
    IF channelName = << >>
    THEN [conn |-> c,
          ev |-> Throw(e, "Cannot subscribe to a channel without a name")]
    ELSE IF notifyFn = "null"
    THEN [conn |-> c,
          ev |-> Throw(e, "Cannot subscribe to a channel with a notify callback")]
    ELSE IF ~c.connected
    THEN [conn |-> c, ev |-> Throw(e, "Connection not established")]
    ELSE IF Has(c.subscribers, channelName)
    THEN [conn |-> c, ev |-> Throw(e, "Already subscribed to this channel")]
    ELSE [conn |-> [c EXCEPT !.subscribers = Put(@, channelName, notifyFn)],
          ev |-> Send(e, Request("/subscribe", channelName,
                                 NotifyUrl(channelName), "", "null", notifyFn,
                                 hasDone))]

\* subscribeChannel without its hasOwnProperty check.
subscribeChannel_NoGuard(c, channelName, notifyFn, hasDone) ==
    LET e == [Call("subscribeChannel", channelName) EXCEPT !.fn = notifyFn] IN
    IF ~c.connected
    THEN [conn |-> c, ev |-> Throw(e, "Connection not established")]
    ELSE IF channelName = << >>
    THEN [conn |-> c,
          ev |-> Throw(e, "Cannot subscribe to a channel without a name")]
    ELSE IF notifyFn = "null"
    THEN [conn |-> c,
          ev |-> Throw(e, "Cannot subscribe to a channel with a notify callback")]
    ELSE [conn |-> [c EXCEPT !.subscribers = Put(@, channelName, notifyFn)],
          ev |-> Send(e, Request("/subscribe", channelName,
                                 NotifyUrl(channelName), "", "null", notifyFn,
                                 hasDone))]

subscribeChannel(c, channelName, notifyFn, hasDone) ==
    LET e == [Call("subscribeChannel", channelName) EXCEPT !.fn = notifyFn] IN
    IF ~c.connected
    THEN [conn |-> c, ev |-> Throw(e, "Connection not established")]
    ELSE IF channelName = << >>
    THEN [conn |-> c,
          ev |-> Throw(e, "Cannot subscribe to a channel without a name")]
    ELSE IF notifyFn = "null"
    THEN [conn |-> c,
          ev |-> Throw(e, "Cannot subscribe to a channel with a notify callback")]
    ELSE IF Has(c.subscribers, channelName)
    THEN [conn |-> c, ev |-> Throw(e, "Already subscribed to this channel")]
    ELSE [conn |-> [c EXCEPT !.subscribers = Put(@, channelName, notifyFn)],
          ev |-> Send(e, Request("/subscribe", channelName,
                                 NotifyUrl(channelName), "", "null", notifyFn,
                                 hasDone))]

\* publishMessage without its check of content.
publishMessage_SendsNull(c, channelName, content, hasDone) ==
    LET e == [Call("publishMessage", channelName) EXCEPT !.content = content] IN
    IF ~c.connected
    THEN [conn |-> c, ev |-> Throw(e, "Connection not established")]
    ELSE IF channelName = << >>
    THEN [conn |-> c,
          ev |-> Throw(e, "Cannot publish a message to a channel without a name")]
    ELSE [conn |-> c,
          ev |-> Send(e, Request("/message", channelName, << >>, "", content,
                                 "null", hasDone))]

publishMessage(c, channelName, content, hasDone) ==
    LET e == [Call("publishMessage", channelName) EXCEPT !.content = content] IN
    IF ~c.connected
    THEN [conn |-> c, ev |-> Throw(e, "Connection not established")]
    ELSE IF channelName = << >>
    THEN [conn |-> c,
          ev |-> Throw(e, "Cannot publish a message to a channel without a name")]
    ELSE IF content = "null"
    THEN [conn |-> c, ev |-> Throw(e, "Cannot publish null or undefined content")]
    ELSE [conn |-> c,
          ev |-> Send(e, Request("/message", channelName, << >>, "", content,
                                 "null", hasDone))]

(***************************************************************************)
(* The handlers of a request's 'response' and 'error' events                *)
(***************************************************************************)
Answered(ev, req, statusCode) ==
    [Call(ev, req.name) EXCEPT !.answered = <<req>>, !.status = statusCode,
                               !.fn = req.fn]

\* A rollback for the status 400 alone.
SubscribeRollback_Only400(subs, channelName, statusCode) ==
    IF statusCode = 400 THEN Delete(subs, channelName) ELSE subs

\* A rollback for every status but 200.
SubscribeRollback_On304(subs, channelName, statusCode) ==
    IF statusCode # 200 THEN Delete(subs, channelName) ELSE subs

\* No rollback at all.
SubscribeRollback_Never(subs, channelName, statusCode) == subs

\* subscribeChannel's 'response' handler, before it calls _handleResponse.
SubscribeRollback(subs, channelName, statusCode) ==
    IF statusCode # 200 /\ statusCode # 304 THEN Delete(subs, channelName)
    ELSE subs

\* A 'response' handler that sends its request again when the broker failed.
onResponse_RetriesOn500(c, req, statusCode) ==
    LET c1 == IF req.path = "/subscribe"
              THEN [c EXCEPT !.subscribers =
                                 SubscribeRollback(@, req.name, statusCode)]
              ELSE c
        args == handleResponse(statusCode)
        e == Done(Answered("response", req, statusCode), c1, req.hasDone,
                  args.error, args.result)
    IN [conn |-> c1, ev |-> IF statusCode = 500 THEN Send(e, req) ELSE e]

\* A 'response' handler that takes a broker failure for a lost connection.
onResponse_DropsConnection(c, req, statusCode) ==
    LET c0 == IF statusCode = 500 THEN [c EXCEPT !.connected = FALSE] ELSE c
        c1 == IF req.path = "/subscribe"
              THEN [c0 EXCEPT !.subscribers =
                                  SubscribeRollback(@, req.name, statusCode)]
              ELSE c0
        args == handleResponse(statusCode)
    IN [conn |-> c1,
        ev |-> Done(Answered("response", req, statusCode), c1, req.hasDone,
                    args.error, args.result)]

\* A 'response' handler that rolls back on a failure of any request.
onResponse_RollbackAnyPath(c, req, statusCode) ==
    LET c1 == [c EXCEPT !.subscribers =
                            SubscribeRollback(@, req.name, statusCode)]
        args == handleResponse(statusCode)
    IN [conn |-> c1,
        ev |-> Done(Answered("response", req, statusCode), c1, req.hasDone,
                    args.error, args.result)]

\* A 'response' handler that writes the entry (again) when the broker confirms.
onResponse_ConfirmsEntry(c, req, statusCode) ==
    LET c1 == IF req.path = "/subscribe"
              THEN IF statusCode = 200
                   THEN [c EXCEPT !.subscribers = Put(@, req.name, req.fn)]
                   ELSE [c EXCEPT !.subscribers =
                                      SubscribeRollback(@, req.name, statusCode)]
              ELSE c
        args == handleResponse(statusCode)
    IN [conn |-> c1,
        ev |-> Done(Answered("response", req, statusCode), c1, req.hasDone,
                    args.error, args.result)]

onResponse(c, req, statusCode) ==
    LET c1 == IF req.path = "/subscribe"
              THEN [c EXCEPT !.subscribers =
                                 SubscribeRollback(@, req.name, statusCode)]
              ELSE c
        args == handleResponse(statusCode)
    IN [conn |-> c1,
        ev |-> Done(Answered("response", req, statusCode), c1, req.hasDone,
                    args.error, args.result)]

\* The argument of done in each method's 'error' handler.
ErrorArg(path) ==
    IF path = "/subscribe" THEN "Unable to subscribe to channel"
    ELSE IF path = "/unsubscribe" THEN "Unable to unsubscribe from channel"
    ELSE NetworkFault

\* An 'error' handler that reports the fault and then goes on to report a
\* response as well.
onError_DoneTwice(c, req) ==
    LET c1 == IF req.path = "/subscribe"
              THEN [c EXCEPT !.subscribers = Delete(@, req.name)]
              ELSE c
        e1 == Done(Answered("error", req, 0), c1, req.hasDone,
                   ErrorArg(req.path), "undefined")
    IN [conn |-> c1, ev |-> Done(e1, c1, req.hasDone, "Server error", "null")]

onError(c, req) ==
    LET c1 == IF req.path = "/subscribe"
              THEN [c EXCEPT !.subscribers = Delete(@, req.name)]
              ELSE c
    IN [conn |-> c1,
        ev |-> Done(Answered("error", req, 0), c1, req.hasDone,
                    ErrorArg(req.path), "undefined")]

(***************************************************************************)
(* The inbound dispatcher                                                   *)
(***************************************************************************)
\* A dispatcher that ends the response for an unknown channel without a status.
handleMessage_NoReject(c, url, body) ==
    LET channel == LastSegment(url)
        e == [Call("message", channel) EXCEPT !.payload = body]
        res1 == IF ~c.connected THEN End(NewRes) ELSE NewRes
    IN IF ~Has(c.subscribers, channel)
       THEN [conn |-> c, ev |-> [e EXCEPT !.res = End(res1)]]
       ELSE [conn |-> c,
             ev |-> [e EXCEPT !.res = res1,
                              !.notified = <<[fn |-> Get(c.subscribers, channel),
                                              payload |-> body]>>]]

\* A dispatcher that drops the entry of a channel once it has delivered.
handleMessage_DeliversOnce(c, url, body) ==
    LET channel == LastSegment(url)
        e == [Call("message", channel) EXCEPT !.payload = body]
        res1 == IF ~c.connected THEN End(NewRes) ELSE NewRes
    IN IF ~Has(c.subscribers, channel)
       THEN [conn |-> c,
             ev |-> [e EXCEPT !.res = End([res1 EXCEPT !.statusCode = 400])]]
       ELSE [conn |-> [c EXCEPT !.subscribers = Delete(@, channel)],
             ev |-> [e EXCEPT !.res = res1,
                              !.notified = <<[fn |-> Get(c.subscribers, channel),
                                              payload |-> body]>>]]

\* A dispatcher that runs the callback of the first entry of the table.
handleMessage_FirstEntry(c, url, body) ==
    LET channel == LastSegment(url)
        e == [Call("message", channel) EXCEPT !.payload = body]
        res1 == IF ~c.connected THEN End(NewRes) ELSE NewRes
    IN IF ~Has(c.subscribers, channel)
       THEN [conn |-> c,
             ev |-> [e EXCEPT !.res = End([res1 EXCEPT !.statusCode = 400])]]
       ELSE [conn |-> c,
             ev |-> [e EXCEPT !.res = res1,
                              !.notified = <<[fn |-> Head(c.subscribers).fn,
                                              payload |-> body]>>]]

handleMessage(c, url, body) ==
    LET channel == LastSegment(url)
        e == [Call("message", channel) EXCEPT !.payload = body]
        res1 == IF ~c.connected THEN End(NewRes) ELSE NewRes
    IN IF ~Has(c.subscribers, channel)
       THEN [conn |-> c,
             ev |-> [e EXCEPT !.res = End([res1 EXCEPT !.statusCode = 400])]]
       ELSE [conn |-> c,
             ev |-> [e EXCEPT !.res = res1,
                              !.notified = <<[fn |-> Get(c.subscribers, channel),
                                              payload |-> body]>>]]

(***************************************************************************)
(* The state machine                                                        *)
(***************************************************************************)
Conn == [connected |-> connected, subscribers |-> subscribers]

isConnected(c) == c.connected

RECURSIVE SeqToBag(_)
SeqToBag(reqs) ==
    IF reqs = << >> THEN EmptyBag
    ELSE SetToBag({Head(reqs)}) (+) SeqToBag(Tail(reqs))

\* Whether the run e took the provisional entry of the waiting request req
\* out of the application's hands: an unsubscribeChannel of its channel, or
\* a disconnect.
Intervenes(e, req) ==
    /\ req.path = "/subscribe"
    /\ e.thrown = ""
    /\ \/ e.ev = "disconnect"
       \/ e.ev = "unsubscribeChannel" /\ e.name = req.name

\* Whether the run e deleted the entry of the waiting request req: what
\* intervenes, or the handler of a failure answer to a subscribe request for
\* the same channel.
Displaces(e, req) ==
    \/ Intervenes(e, req)
    \/ /\ req.path = "/subscribe"
       /\ e.answered # << >>
       /\ e.answered[1].path = "/subscribe"
       /\ e.answered[1].name = req.name
       /\ e.status \notin {200, 304}

Mark(e, req) ==
    [req EXCEPT !.intact = @ /\ ~Intervenes(e, req),
                !.held = @ /\ ~Displaces(e, req)]

RECURSIVE SumCopies(_, _)
SumCopies(bag, S) ==
    IF S = {} THEN 0
    ELSE LET r == CHOOSE x \in S : TRUE
         IN CopiesIn(r, bag) + SumCopies(bag, S \ {r})

\* The waiting requests `waiting` after the run e.
Marked(e, waiting) ==
    LET olds == BagToSet(waiting)
        news == {Mark(e, r) : r \in olds}
    IN IF \A r \in olds : ~Displaces(e, r) THEN waiting
       ELSE [n \in news |-> SumCopies(waiting, {r \in olds : Mark(e, r) = n})]

\* The run `out` of a method or handler becomes the next state; `waiting` are
\* the requests that still wait for their answer.
Apply(out, waiting) ==
    \E o \in {out} :
        /\ BagCardinality(waiting) + Len(o.ev.sent) <= MaxInFlight
        /\ connected' = o.conn.connected
        /\ subscribers' = o.conn.subscribers
        /\ inflight' = Marked(o.ev, waiting) (+) SeqToBag(o.ev.sent)
        /\ last' = o.ev
        /\ registered' = registered

Init ==
    /\ connected = FALSE
    /\ subscribers = << >>
    /\ inflight = EmptyBag
    /\ last = NoEvent
    /\ registered = {}

Connect == Apply(connect(Conn, TRUE), inflight)

Disconnect == Apply(disconnect(Conn, TRUE), inflight)

CreateChannel ==
    \E name \in PlainNames, type \in ChannelTypes :
        Apply(createChannel(Conn, name, type, TRUE), inflight)

Subscribe ==
    \E name \in ChannelNames, fn \in NotifyArgs :
        Apply(subscribeChannel(Conn, name, fn, TRUE), inflight)

Unsubscribe ==
    \E name \in ChannelNames :
        Apply(unsubscribeChannel(Conn, name, TRUE), inflight)

Publish ==
    \E name \in PlainNames, content \in Contents :
        Apply(publishMessage(Conn, name, content, TRUE), inflight)

\* The request library emits 'response' for a waiting request.
Response ==
    \E req \in BagToSet(inflight), statusCode \in StatusCodes :
        Apply(onResponse(Conn, req, statusCode), inflight (-) SetToBag({req}))

\* The request library emits 'error' for a waiting request.
TransportError ==
    \E req \in BagToSet(inflight) :
        Apply(onError(Conn, req), inflight (-) SetToBag({req}))

\* The broker pushes a message.
Message ==
    \E url \in InboundUrls, body \in Payloads :
        Apply(handleMessage(Conn, url, body), inflight)

Next ==
    \/ Connect
    \/ Disconnect
    \/ CreateChannel
    \/ Subscribe
    \/ Unsubscribe
    \/ Publish
    \/ Response
    \/ TransportError
    \/ Message

Spec == Init /\ [][Next]_vars

\* The inputs of the runs that are checked for liveness: one channel, one
\* notify callback, one message body.
LiveNames == {<< >>, <<"a">>}
LiveFns == {"null", "f1"}
LivePayloads == {"null", "p1"}

\* The run e has its inputs among them.
LiveInputs(e) ==
    /\ e.name \in LiveNames
    /\ e.fn \in LiveFns
    /\ e.payload \in LivePayloads

\* The requests those runs send, as they are when sent.
LiveRequests ==
    LET c == [connected |-> TRUE, subscribers |-> << >>] IN
    {createChannel(c, n, t, TRUE).ev.sent[1] :
         n \in LiveNames \ {<< >>}, t \in ChannelTypes}
    \cup {subscribeChannel(c, n, f, TRUE).ev.sent[1] :
              n \in LiveNames \ {<< >>}, f \in LiveFns \ {"null"}}
    \cup {unsubscribeChannel(c, n, d).ev.sent[1] :
              n \in LiveNames \ {<< >>}, d \in BOOLEAN}
    \cup {publishMessage(c, n, x, TRUE).ev.sent[1] :
              n \in LiveNames \ {<< >>}, x \in Contents \ {"null"}}

\* The request req as it was sent.
AsSent(req) == [req EXCEPT !.intact = TRUE, !.held = TRUE]

\* The request library emits 'response' or 'error' for a waiting request that
\* was sent as k.
Answer(k) ==
    \E req \in BagToSet(inflight) :
        /\ AsSent(req) = k
        /\ \/ \E statusCode \in StatusCodes :
                 Apply(onResponse(Conn, req, statusCode),
                       inflight (-) SetToBag({req}))
           \/ Apply(onError(Conn, req), inflight (-) SetToBag({req}))

LiveNext ==
    \/ Connect /\ LiveInputs(last')
    \/ Disconnect /\ LiveInputs(last')
    \/ CreateChannel /\ LiveInputs(last')
    \/ Subscribe /\ LiveInputs(last')
    \/ Unsubscribe /\ LiveInputs(last')
    \/ Publish /\ LiveInputs(last')
    \/ Response /\ LiveInputs(last')
    \/ TransportError /\ LiveInputs(last')
    \/ Message /\ LiveInputs(last')

\* The same program with the inputs above, and a broker (or transport) that
\* eventually answers every request.
LiveSpec ==
    /\ Init
    /\ [][LiveNext]_vars
    /\ \A k \in LiveRequests : WF_vars(Answer(k))

(***************************************************************************)
(* Channel names with a '/' and the route of the inbound dispatcher         *)
(***************************************************************************)
\* Channel names subscribeChannel accepts (any non-empty string), one of them
\* with a '/'.
UrlNames == {<<"a">>, <<"b">>, <<"a", "/", "b">>}

\* The path of a notify url: what follows the server's own address.
UrlPath(url) ==
    SubSeq(url, Len(StripTrailingSlash(ConfigServerUrl)) + 1, Len(url))

\* router.post(mountPath + '/:channel', ...): the route takes a path that is
\* the mount path, a '/' and one non-empty segment without a '/'.
RouteMatches(path) ==
    LET n == Len(MountPath) + 1 IN
    /\ Len(path) > n
    /\ SubSeq(path, 1, n) = MountPath \o <<"/">>
    /\ \A i \in (n + 1)..Len(path) : path[i] # "/"

\* A POST to path: the router hands it to _handleMessage if the route matches
\* and answers 404 itself if not.
Route(c, path, body) ==
    IF RouteMatches(path) THEN handleMessage(c, path, body)
    ELSE [conn |-> c,
          ev |-> [Call("message", << >>) EXCEPT
                      !.payload = body,
                      !.res = [statusCode |-> 404, ended |-> 1]]]

UrlSubscribe ==
    \E name \in UrlNames, fn \in NotifyFns :
        Apply(subscribeChannel(Conn, name, fn, TRUE), inflight)

UrlUnsubscribe ==
    \E name \in UrlNames :
        Apply(unsubscribeChannel(Conn, name, TRUE), inflight)

\* The broker pushes a message to the notify url of a channel.
UrlMessage ==
    \E name \in UrlNames, body \in LivePayloads \ {"null"} :
        Apply(Route(Conn, UrlPath(NotifyUrl(name)), body), inflight)

UrlNext ==
    \/ Connect
    \/ UrlSubscribe
    \/ UrlUnsubscribe
    \/ Response
    \/ UrlMessage

UrlSpec == Init /\ [][UrlNext]_vars


(***************************************************************************)
(* A broker that keeps its registrations                                    *)
(***************************************************************************)
\* The one channel and the one notify callback of these runs.
BrokerNames == {<<"a">>}
BrokerFns == {"f1"}

\* The status codes with which the broker answers a request it carries out:
\* 200 for a change of its registrations, 304 for a subscribe of a target it
\* holds, 304 or 400 for an unsubscribe of a target it does not hold.
BrokerStatus(req, reg) ==
    IF req.path = "/subscribe"
    THEN IF req.name \in reg THEN {304} ELSE {200}
    ELSE IF req.name \in reg THEN {200} ELSE {304, 400}

\* Its registrations after it has carried out the request.
BrokerAfter(req, reg) ==
    IF req.path = "/subscribe" THEN reg \cup {req.name} ELSE reg \ {req.name}

\* The paths of the subscribe and unsubscribe requests among others that are
\* for the channel of req.
Rivals(req, others) ==
    {o.path : o \in {x \in others : /\ x.name = req.name
                                    /\ x.path \in {"/subscribe", "/unsubscribe"}}}

\* A subscribe request as it is sent, and a waiting one when others are sent.
TagSent(req, others, reg) ==
    IF req.path = "/subscribe"
    THEN [req EXCEPT !.remote = req.name \in reg, !.rivals = Rivals(req, others)]
    ELSE req

TagWaiting(req, others) ==
    IF req.path = "/subscribe"
    THEN [req EXCEPT !.rivals = @ \cup Rivals(req, others)]
    ELSE req

\* Apply, with the broker's registrations reg after the step and the waiting
\* subscribe requests tagged.
ApplyBroker(out, waiting, reg) ==
    \E o \in {out} :
        LET marked == Marked(o.ev, waiting)
            olds == BagToSet(marked)
            news == {o.ev.sent[i] : i \in 1..Len(o.ev.sent)}
            tagged == {TagWaiting(r, news) : r \in olds}
            waiting1 == [n \in tagged |->
                            SumCopies(marked,
                                      {r \in olds : TagWaiting(r, news) = n})]
            sent1 == [i \in 1..Len(o.ev.sent) |->
                         TagSent(o.ev.sent[i], olds, registered)]
        IN /\ BagCardinality(waiting) + Len(o.ev.sent) <= MaxInFlight
           /\ connected' = o.conn.connected
           /\ subscribers' = o.conn.subscribers
           /\ inflight' = waiting1 (+) SeqToBag(sent1)
           /\ last' = o.ev
           /\ registered' = reg

BrokerConnect == ApplyBroker(connect(Conn, TRUE), inflight, registered)

BrokerDisconnect == ApplyBroker(disconnect(Conn, TRUE), inflight, registered)

BrokerSubscribe ==
    \E name \in BrokerNames, fn \in BrokerFns :
        ApplyBroker(subscribeChannel(Conn, name, fn, TRUE), inflight, registered)

BrokerUnsubscribe ==
    \E name \in BrokerNames :
        ApplyBroker(unsubscribeChannel(Conn, name, TRUE), inflight, registered)

\* The broker carries out a waiting request and its answer is handled.
BrokerAnswer ==
    \E req \in BagToSet(inflight) :
        \E statusCode \in BrokerStatus(req, registered) :
            ApplyBroker(onResponse(Conn, req, statusCode),
                        inflight (-) SetToBag({req}),
                        BrokerAfter(req, registered))

\* The broker rejects a waiting request, or fails, and changes nothing.
BrokerReject ==
    \E req \in BagToSet(inflight), statusCode \in {400, 500} :
        ApplyBroker(onResponse(Conn, req, statusCode),
                    inflight (-) SetToBag({req}), registered)

\* The transport fails: the request is lost on its way to the broker, or the
\* answer is lost after the broker has carried the request out.
TransportLoss ==
    \E req \in BagToSet(inflight), reached \in BOOLEAN :
        ApplyBroker(onError(Conn, req), inflight (-) SetToBag({req}),
                    IF reached THEN BrokerAfter(req, registered)
                    ELSE registered)

BrokerNext ==
    \/ BrokerConnect
    \/ BrokerDisconnect
    \/ BrokerSubscribe
    \/ BrokerUnsubscribe
    \/ BrokerAnswer
    \/ BrokerReject
    \/ TransportLoss

BrokerSpec == Init /\ [][BrokerNext]_vars


(***************************************************************************)
(* Properties                                                               *)
(***************************************************************************)
BrokerOps == {"createChannel", "subscribeChannel", "unsubscribeChannel",
              "publishMessage"}

Waiting == BagToSet(inflight)

\* The step is a run of method or event ev (last' tells which).
Ran(ev) == last'.ev = ev

\* The step leaves the object's fields and the waiting requests alone.
NothingChanged == UNCHANGED <<connected, subscribers, inflight>>

\* The errors the code makes up for a broker that failed; the literal fault
\* of the request library (NetworkFault) is none of them.
BrokerErrors == {"Server error", "Unable to subscribe to channel",
                 "Unable to unsubscribe from channel"}

\* A step that runs one of the four methods while not connected.
C1_NotConnectedStep ==
    (~connected /\ last'.ev \in BrokerOps) =>
        /\ last'.thrown = "Connection not established"
        /\ last'.dones = << >>
        /\ last'.sent = << >>
        /\ NothingChanged

\* C1: createChannel, subscribeChannel, unsubscribeChannel and publishMessage,
\* called with any arguments while not connected, throw 'Connection not
\* established' (whatever the arguments), never run the completion callback,
\* send no request and leave connected and subscribers unchanged.
C1_NotConnected == [][C1_NotConnectedStep]_vars

\* A subscribeChannel without a name and without a notify callback,
\* refused for the missing connection.
C1_Witness ==
    /\ last.ev = "subscribeChannel"
    /\ last.name = << >>
    /\ last.fn = "null"
    /\ last.thrown = "Connection not established"
    /\ ~connected

\* A step that runs connect or disconnect.
C2_ToggleStep ==
    /\ Ran("connect") =>
          /\ (last'.thrown = "") = ~isConnected(Conn)
          /\ isConnected(Conn) => last'.thrown = "Connection already established"
          /\ connected' = TRUE
    /\ Ran("disconnect") =>
          /\ (last'.thrown = "") = isConnected(Conn)
          /\ ~isConnected(Conn) =>
                 last'.thrown = "Connection already disconnected"
          /\ connected' = FALSE

\* C2: connect succeeds exactly when not connected and then isConnected() is
\* true; disconnect succeeds exactly when connected and then isConnected() is
\* false; the failing calls leave connected as it was; this holds in every
\* reachable state, so also after a disconnect.
C2_Toggle == [][C2_ToggleStep]_vars

\* A connect that succeeded after a disconnect: the unsubscribe request of
\* that disconnect still waits.
C2_Witness ==
    /\ last.ev = "connect"
    /\ last.thrown = ""
    /\ connected
    /\ \E r \in Waiting : r.path = "/unsubscribe" /\ ~r.hasDone

\* A step that runs subscribeChannel for a channel that is a key of subscribers.
C3_GuardStep ==
    (Ran("subscribeChannel") /\ Has(subscribers, last'.name)) =>
        /\ last'.thrown # ""
        /\ last'.fn # "null" =>
               last'.thrown = "Already subscribed to this channel"
        /\ last'.dones = << >>
        /\ last'.sent = << >>
        /\ NothingChanged

\* No channel name is a key of subscribers twice.
C3_OneEntry ==
    \A i, j \in 1..Len(subscribers) :
        subscribers[i].name = subscribers[j].name => i = j

\* C3: while a channel name is a key of subscribers, a subscribeChannel for it
\* throws ('Already subscribed to this channel' when it comes with a notify
\* callback), never runs the completion callback, sends nothing and leaves
\* the registered callback; no channel name is a key twice.
C3_SubscribeGuard == []C3_OneEntry /\ [][C3_GuardStep]_vars

\* A second subscribeChannel with another callback, refused while the first
\* one's request still waits.
C3_Witness ==
    /\ last.ev = "subscribeChannel"
    /\ last.thrown = "Already subscribed to this channel"
    /\ Has(subscribers, last.name)
    /\ Get(subscribers, last.name) # last.fn
    /\ \E r \in Waiting :
           r.path = "/subscribe" /\ r.name = last.name /\ r.intact

\* A step that dispatches a message for a subscribed channel.
C4_DispatchStep ==
    (Ran("message") /\ connected /\ Has(subscribers, last'.name)) =>
        last'.notified = <<[fn |-> Get(subscribers, last'.name),
                            payload |-> last'.payload]>>

\* C4: while connected, a message whose path ends in a channel name that is a
\* key of subscribers runs that channel's callback exactly once, with the
\* body received, and no other callback.
C4_Dispatch == [][C4_DispatchStep]_vars

\* Two channels with distinct callbacks, and a message for the one that was
\* subscribed last.
C4_Witness ==
    /\ last.ev = "message"
    /\ connected
    /\ Len(subscribers) = 2
    /\ subscribers[1].fn # subscribers[2].fn
    /\ last.name = subscribers[2].name
    /\ last.notified = <<[fn |-> subscribers[2].fn, payload |-> "p2"]>>

\* What a step does to a channel that is or gets out of subscribers.
C5_SilenceStep ==
    /\ (Ran("unsubscribeChannel") /\ last'.thrown = "") =>
          /\ ~Has(subscribers', last'.name)
          /\ Len(last'.sent) = 1
          /\ last'.sent[1].path = "/unsubscribe"
          /\ last'.sent[1].name = last'.name
    /\ \A ch \in ChannelNames :
          (~Has(subscribers, ch) /\ Has(subscribers', ch)) =>
              (Ran("subscribeChannel") /\ last'.name = ch /\ last'.thrown = "")
    /\ (Ran("message") /\ ~Has(subscribers, last'.name)) =>
          last'.notified = << >>

\* C5: an unsubscribeChannel that passes its checks leaves its channel out of
\* subscribers; a channel that is out of subscribers stays out through any
\* step (any answer to any request included) but a subscribeChannel of it;
\* and a message for a channel that is out of subscribers runs no callback.
C5_PostUnsubscribeSilence == [][C5_SilenceStep]_vars

\* A message for a channel whose unsubscribe request has no answer yet.
C5_Witness ==
    /\ last.ev = "message"
    /\ last.notified = << >>
    /\ connected
    /\ ~Has(subscribers, last.name)
    /\ last.name = <<"a">>
    /\ \E r \in Waiting : r.path = "/unsubscribe" /\ r.name = <<"a">> /\ r.hasDone

\* A step that runs disconnect while connected, or dispatches a message while
\* not connected.
C6_FanOutStep ==
    /\ (Ran("disconnect") /\ connected) =>
          /\ last'.thrown = ""
          /\ subscribers' = << >>
          /\ ~connected'
          /\ Len(last'.sent) = Len(subscribers)
          /\ \A i \in 1..Len(subscribers) :
                /\ last'.sent[i].path = "/unsubscribe"
                /\ last'.sent[i].name = subscribers[i].name
                /\ last'.sent[i].notifyUrl = NotifyUrl(subscribers[i].name)
          /\ inflight' = Marked(last', inflight) (+) SeqToBag(last'.sent)
    /\ (Ran("message") /\ ~connected) => last'.notified = << >>

\* C6: a disconnect that succeeds leaves subscribers empty and connected
\* false and sends one unsubscribe request for each channel that was a key of
\* subscribers; while not connected subscribers is empty, and a message for a
\* channel that is not a key runs no callback.
C6_DisconnectFanOut ==
    [](~connected => subscribers = << >>) /\ [][C6_FanOutStep]_vars

\* A disconnect with two channels subscribed.
C6_Witness ==
    /\ last.ev = "disconnect"
    /\ last.thrown = ""
    /\ Len(last.sent) = 2
    /\ last.sent[1].name # last.sent[2].name
    /\ subscribers = << >>
    /\ ~connected

\* C7: the completion callback of a createChannel, subscribeChannel,
\* unsubscribeChannel or publishMessage gets (null, true) for the answer 200,
\* (null, false) for 304, the bad-request error for 400 and a broker error for
\* any other status and for a transport failure; the handler throws nothing.
C7_ResponseMapping ==
    (last.answered # << >> /\ last.answered[1].hasDone) =>
        /\ last.thrown = ""
        /\ Len(last.dones) = 1
        /\ last.status = 200 =>
               last.dones[1].error = "null" /\ last.dones[1].result = "true"
        /\ last.status = 304 =>
               last.dones[1].error = "null" /\ last.dones[1].result = "false"
        /\ last.status = 400 => last.dones[1].error = "Bad request"
        /\ last.status \notin {200, 304, 400} =>
               last.dones[1].error \in BrokerErrors

\* C8: a run of a method or handler runs the completion callback at most
\* once, a call itself never does (only the handler of its request's answer),
\* and each run of the callback carries an error or a boolean result, never
\* both and never neither.
C8_CallbackDiscipline ==
    /\ Len(last.dones) <= 1
    /\ last.ev \in BrokerOps => last.dones = << >>
    /\ \A i \in 1..Len(last.dones) :
           (last.dones[i].error # "null")
               # (last.dones[i].result \in {"true", "false"})

\* The error answer to a subscribe request whose channel was unsubscribed
\* while it waited.
C8_Witness ==
    /\ last.answered # << >>
    /\ last.answered[1].path = "/subscribe"
    /\ ~last.answered[1].intact
    /\ connected
    /\ Len(last.dones) = 1
    /\ last.dones[1].error = "Unable to subscribe to channel"

\* C9: while the request of a subscribeChannel(ch, f) waits for its answer,
\* and no unsubscribeChannel(ch) and no disconnect ran since the call, the
\* connection is connected and ch is in subscribers bound to f (so that a
\* message for ch is delivered to f).
C9_Provisional ==
    \A r \in Waiting :
        (r.path = "/subscribe" /\ r.intact) =>
            /\ connected
            /\ Has(subscribers, r.name)
            /\ Get(subscribers, r.name) = r.fn

\* After a failure answer to a subscribe request.
C10_Failed ==
    (/\ last.answered # << >>
     /\ last.answered[1].path = "/subscribe"
     /\ last.status \notin {200, 304}) =>
        /\ ~Has(subscribers, last.name)
        /\ Len(last.dones) = 1
        /\ last.dones[1].error # "null"
        /\ ~Has(last.dones[1].subscribers, last.name)

\* A step that handles the answer 200 or 304 to a subscribe request.
C10_SucceededStep ==
    (/\ last'.answered # << >>
     /\ last'.answered[1].path = "/subscribe"
     /\ last'.status \in {200, 304}) => subscribers' = subscribers

\* C10: when the answer to a subscribe request for ch is a failure (a status
\* other than 200 and 304, or a transport error), the completion callback gets
\* an error and ch is not in subscribers at that moment; when the answer is
\* 200 or 304 the handler leaves subscribers as it was.
C10_SubscribeRollback == []C10_Failed /\ [][C10_SucceededStep]_vars

\* The answer 500 to the subscribe request of one of two channels.
C10_Witness ==
    /\ last.answered # << >>
    /\ last.answered[1].path = "/subscribe"
    /\ last.answered[1].intact
    /\ last.status = 500
    /\ last.dones[1].error = "Server error"
    /\ Len(subscribers) = 1
    /\ ~Has(subscribers, last.name)

\* A step that dispatches a message for a channel that is no key of subscribers
\* while connected.
C11_UnknownStep ==
    (Ran("message") /\ connected /\ ~Has(subscribers, last'.name)) =>
        /\ last'.res = [statusCode |-> 400, ended |-> 1]
        /\ last'.notified = << >>
        /\ last'.thrown = ""
        /\ NothingChanged

\* C11: while connected, a message for a channel that is not a key of
\* subscribers is answered with status 400, its response is ended once, no
\* callback runs and subscribers is left as it was.
C11_UnknownChannel == [][C11_UnknownStep]_vars

\* A message for b while only a is subscribed.
C11_Witness ==
    /\ last.ev = "message"
    /\ last.name = <<"b">>
    /\ connected
    /\ Len(subscribers) = 1
    /\ subscribers[1].name = <<"a">>
    /\ last.res.statusCode = 400

\* C12: a message that arrives while not connected is a no-op: its response is
\* ended exactly once, gets no error status, and no callback runs.
C12_DisconnectedNoOp ==
    (last.ev = "message" /\ ~connected) =>
        /\ last.res = [statusCode |-> 0, ended |-> 1]
        /\ last.notified = << >>

\* C13: while connected, a message for a channel that is a key of subscribers
\* runs the callback with the body and is acknowledged: its response is ended
\* exactly once, without an error status.
C13_Acknowledged ==
    (last.ev = "message" /\ connected /\ Has(subscribers, last.name)) =>
        /\ last.notified = <<[fn |-> Get(subscribers, last.name),
                              payload |-> last.payload]>>
        /\ last.res.ended = 1
        /\ last.res.statusCode \in {0, 200}

\* The messages of the errors thrown for a missing argument.
ArgumentErrors ==
    {"Cannot create a channel without a name",
     "Cannot subscribe to a channel without a name",
     "Cannot subscribe to a channel with a notify callback",
     "Cannot unsubscibe from a channel without a name",
     "Cannot publish a message to a channel without a name",
     "Cannot publish null or undefined content"}

\* The run e of one of the four methods lacks a required argument.
LacksArgument(e) ==
    /\ e.ev \in BrokerOps
    /\ \/ e.name = << >>
       \/ e.ev = "subscribeChannel" /\ e.fn = "null"
       \/ e.ev = "publishMessage" /\ e.content = "null"

\* A step that runs one of the four methods without a required argument while
\* connected.
C14_FailFastStep ==
    (connected /\ LacksArgument(last')) =>
        /\ last'.thrown \in ArgumentErrors
        /\ last'.sent = << >>
        /\ last'.dones = << >>
        /\ NothingChanged

\* C14: while connected, createChannel, subscribeChannel, unsubscribeChannel
\* and publishMessage with an empty channel name, subscribeChannel without a
\* notify callback and publishMessage with null content throw an argument
\* error; they send no request, never run the completion callback and leave
\* connected and subscribers (no provisional entry) as they were.
C14_FailFast == [][C14_FailFastStep]_vars

\* A subscribeChannel of b without a notify callback, refused while connected
\* and with a subscribed.
C14_Witness ==
    /\ last.ev = "subscribeChannel"
    /\ last.name = <<"b">>
    /\ last.fn = "null"
    /\ last.thrown = "Cannot subscribe to a channel with a notify callback"
    /\ connected
    /\ Has(subscribers, <<"a">>)
    /\ ~Has(subscribers, <<"b">>)

\* The path each method posts to.
PathOf(ev) ==
    CASE ev = "createChannel" -> "/channel"
      [] ev = "subscribeChannel" -> "/subscribe"
      [] ev = "unsubscribeChannel" -> "/unsubscribe"
      [] ev = "publishMessage" -> "/message"

\* The requests a step sends.
C15_SingleAttemptStep ==
    /\ (last'.ev \in BrokerOps /\ last'.thrown = "") =>
          /\ Len(last'.sent) = 1
          /\ last'.sent[1].path = PathOf(last'.ev)
          /\ last'.sent[1].name = last'.name
    /\ (last'.ev \in BrokerOps /\ last'.thrown # "") => last'.sent = << >>
    /\ Ran("disconnect") =>
          /\ Len(last'.sent) = Len(subscribers) - Len(subscribers')
          /\ \A i \in 1..Len(last'.sent) : last'.sent[i].path = "/unsubscribe"
    /\ last'.ev \in {"connect", "message", "response", "error"} =>
          last'.sent = << >>
    /\ BagCardinality(inflight') =
          BagCardinality(inflight) + Len(last'.sent) - Len(last'.answered)

\* C15: a createChannel, subscribeChannel, unsubscribeChannel or publishMessage
\* that passes its checks sends exactly one request and a refused one none; a
\* disconnect sends one unsubscribe request per channel it removes; the
\* handlers of a response or a transport error, connect and the dispatcher
\* send none, so no request is sent again; the waiting requests are those
\* sent and not yet answered.
C15_SingleAttempt == [][C15_SingleAttemptStep]_vars

\* A transport error of a publish request, after which nothing waits.
C15_Witness ==
    /\ last.ev = "error"
    /\ last.answered[1].path = "/message"
    /\ last.dones # << >>
    /\ inflight = EmptyBag

\* A step that changes connected, and a step that fails.
C16_ConnectivityStep ==
    /\ connected' # connected =>
          /\ last'.ev \in {"connect", "disconnect"}
          /\ last'.thrown = ""
    /\ (\/ last'.thrown # ""
        \/ last'.answered # << >>
        \/ Ran("message")) => connected' = connected
    /\ \A i \in 1..Len(last'.dones) : last'.dones[i].connected = connected'

\* C16: connected is a boolean and changes only in a connect or a disconnect
\* that succeeds: no call that throws, no answer of the broker (200, 304, 400,
\* 500, transport error) and no inbound message changes it, and the
\* completion callback sees the value the step leaves.
C16_Connectivity == [](connected \in BOOLEAN) /\ [][C16_ConnectivityStep]_vars

\* The answer 500 to a createChannel, still connected.
C16_Witness ==
    /\ last.ev = "response"
    /\ last.status = 500
    /\ last.answered[1].path = "/channel"
    /\ last.dones[1].error = "Server error"
    /\ connected

\* The run e handled a failure answer to a subscribe request for channel ch.
SubscribeFailed(e, ch) ==
    /\ e.answered # << >>
    /\ e.answered[1].path = "/subscribe"
    /\ e.answered[1].name = ch
    /\ e.status \notin {200, 304}

\* What a step may do to subscribers.
C17_FrameStep ==
    /\ \A ch \in ChannelNames :
          /\ (~Has(subscribers, ch) /\ Has(subscribers', ch)) =>
                /\ Ran("subscribeChannel")
                /\ last'.name = ch
                /\ last'.thrown = ""
                /\ Get(subscribers', ch) = last'.fn
          /\ (Has(subscribers, ch) /\ ~Has(subscribers', ch)) =>
                \/ Ran("unsubscribeChannel") /\ last'.name = ch /\ last'.thrown = ""
                \/ Ran("disconnect") /\ last'.thrown = ""
                \/ SubscribeFailed(last', ch)
          /\ (Has(subscribers, ch) /\ Has(subscribers', ch)) =>
                Get(subscribers', ch) = Get(subscribers, ch)
    /\ (\/ last'.ev \in {"createChannel", "publishMessage", "connect"}
        \/ /\ last'.answered # << >>
           /\ last'.answered[1].path \in {"/channel", "/message", "/unsubscribe"})
          => subscribers' = subscribers

\* C17: a channel gets into subscribers only in a subscribeChannel of it that
\* passes its checks, and out of it only in an unsubscribeChannel of it, a
\* disconnect, or the handler of a failure answer to a subscribe request for
\* it; createChannel, publishMessage, connect and the answers to create,
\* publish and unsubscribe requests leave subscribers as it was.
C17_RoutingFrame == [][C17_FrameStep]_vars

\* The answer 500 to a publish to a, with a still subscribed.
C17_Witness ==
    /\ last.ev = "response"
    /\ last.status = 500
    /\ last.answered[1].path = "/message"
    /\ last.name = <<"a">>
    /\ Has(subscribers, <<"a">>)

\* A step that runs disconnect while connected, and a step that handles the
\* answer to a request that was sent without a completion callback.
C18_NoWaitStep ==
    /\ (Ran("disconnect") /\ connected) =>
          /\ ~connected'
          /\ last'.dones = <<[error |-> "null", result |-> "true",
                              connected |-> FALSE, subscribers |-> << >>]>>
          /\ \A i \in 1..Len(last'.sent) :
                /\ ~last'.sent[i].hasDone
                /\ CopiesIn(last'.sent[i], inflight') >= 1
    /\ (last'.answered # << >> /\ ~last'.answered[1].hasDone) =>
          /\ last'.answered[1].path = "/unsubscribe"
          /\ last'.dones = << >>
          /\ last'.notified = << >>
          /\ last'.thrown = ""
          /\ connected' = connected
          /\ subscribers' = subscribers

\* C18: a disconnect that succeeds clears connected and runs its completion
\* callback in the step in which it sends its unsubscribe requests, which
\* then still wait for their answers; the answer to such a request (any
\* status or a transport error) runs no application callback and changes
\* neither connected nor subscribers, also after a reconnect.
C18_DisconnectNoWait == [][C18_NoWaitStep]_vars

\* The answer 500 to an unsubscribe request of a disconnect, after a
\* reconnect and a new subscription to the same channel.
C18_Witness ==
    /\ last.ev = "response"
    /\ last.status = 500
    /\ last.answered[1].path = "/unsubscribe"
    /\ ~last.answered[1].hasDone
    /\ connected
    /\ Has(subscribers, last.name)

\* C19: if every request is eventually answered (LiveSpec), then whenever a
\* request of a createChannel, subscribeChannel, unsubscribeChannel or
\* publishMessage that came with a completion callback waits, its answer is
\* eventually handled and the callback runs, whatever disconnect, connect or
\* unsubscribeChannel runs in between.
C19_CallbackLiveness ==
    \A k \in {r \in LiveRequests : r.hasDone} :
        (\E q \in Waiting : AsSent(q) = k)
            ~> (/\ last.answered # << >>
                /\ AsSent(last.answered[1]) = k
                /\ Len(last.dones) = 1)

\* The answer 200 to a subscribe request, handled after a disconnect.
C19_Witness ==
    /\ last.ev = "response"
    /\ last.status = 200
    /\ last.answered[1].path = "/subscribe"
    /\ ~last.answered[1].intact
    /\ ~connected
    /\ Len(last.dones) = 1
    /\ last.dones[1].result = "true"

\* A step that runs an unsubscribeChannel that passes its checks, or handles
\* a failure answer to a subscribe request.
C20_LocalStep ==
    (\/ Ran("unsubscribeChannel") /\ last'.thrown = ""
     \/ SubscribeFailed(last', last'.name)) =>
        \A B \in ChannelNames \ {last'.name} :
            /\ Has(subscribers', B) = Has(subscribers, B)
            /\ Get(subscribers', B) = Get(subscribers, B)
            /\ (Has(subscribers, B) /\ connected') =>
                  \A body \in Payloads :
                      handleMessage([connected |-> connected',
                                     subscribers |-> subscribers'],
                                    MountPath \o <<"/">> \o B, body).ev.notified
                          = <<[fn |-> Get(subscribers, B), payload |-> body]>>

\* C20: an unsubscribeChannel of A, and the handler of a failure answer to a
\* subscribe request for A, leave the entry and the callback of every other
\* channel B as they were, so that a message for B still runs B's callback.
C20_ChannelLocal == [][C20_LocalStep]_vars

\* A transport error of the subscribe request for a, with b still subscribed.
C20_Witness ==
    /\ last.ev = "error"
    /\ last.answered[1].path = "/subscribe"
    /\ last.name = <<"a">>
    /\ connected
    /\ subscribers = <<[name |-> <<"b">>, fn |-> "f2"]>>

\* A step that runs unsubscribeChannel for a named channel that is no key of
\* subscribers while connected, and a step that handles the answer to an
\* unsubscribe request of the application.
C21_NoLookupStep ==
    /\ (/\ Ran("unsubscribeChannel")
        /\ connected
        /\ last'.name # << >>
        /\ ~Has(subscribers, last'.name)) =>
          /\ last'.thrown = ""
          /\ Len(last'.sent) = 1
          /\ last'.sent[1].path = "/unsubscribe"
          /\ last'.sent[1].name = last'.name
          /\ last'.sent[1].notifyUrl = NotifyUrl(last'.name)
          /\ last'.dones = << >>
          /\ subscribers' = subscribers
          /\ connected' = connected
    /\ (/\ last'.ev = "response"
        /\ last'.answered[1].path = "/unsubscribe"
        /\ last'.answered[1].hasDone) =>
          /\ Len(last'.dones) = 1
          /\ last'.dones[1].error = handleResponse(last'.status).error
          /\ last'.dones[1].result = handleResponse(last'.status).result
          /\ last'.status = 400 => last'.dones[1].error = "Bad request"

\* C21: while connected, an unsubscribeChannel of a channel that is not a key
\* of subscribers throws nothing, sends one unsubscribe request and leaves
\* subscribers as it was; the broker's answer to an unsubscribe request
\* reaches the completion callback (an error for the status 400).
C21_UnsubscribeNoLookup == [][C21_NoLookupStep]_vars

\* An unsubscribeChannel of b that passed its checks while a, and not b, has
\* a subscribe request waiting.
C21_Witness ==
    /\ last.ev = "unsubscribeChannel"
    /\ last.name = <<"b">>
    /\ last.thrown = ""
    /\ subscribers = <<[name |-> <<"a">>, fn |-> "f1"]>>
    /\ BagCardinality(inflight) = 2
    /\ \E r \in Waiting : r.path = "/subscribe" /\ r.name = <<"a">> /\ r.intact

\* C25: subscribers is empty in every state in which connected is false, and
\* so it is right after a connect that succeeded; the handler of an answer to
\* a subscribe request that comes after the disconnect leaves it empty.
C25_EmptyWhileDisconnected ==
    /\ ~connected => subscribers = << >>
    /\ (last.ev = "connect" /\ last.thrown = "") => subscribers = << >>
    /\ (last.answered # << >> /\ ~connected) =>
          \A i \in 1..Len(last.dones) : last.dones[i].subscribers = << >>

\* The answer 200 to a subscribe request, handled after a disconnect and a
\* connect.
C25_Witness ==
    /\ last.ev = "response"
    /\ last.status = 200
    /\ last.answered[1].path = "/subscribe"
    /\ ~last.answered[1].intact
    /\ connected
    /\ subscribers = << >>
    /\ \E r \in Waiting : r.path = "/unsubscribe" /\ ~r.hasDone

\* A step that handles a failure answer to a subscribe request whose own entry
\* an unsubscribeChannel or a disconnect has removed already.
C26_OwnEntryStep ==
    (/\ SubscribeFailed(last', last'.name)
     /\ ~last'.answered[1].intact) => subscribers' = subscribers

\* C26: the handler of a failure answer to a subscribe request removes the
\* entry only if that request inserted it: after an unsubscribeChannel of the
\* channel, or a disconnect, the late failure answer removes no entry, in
\* particular not the one a later subscribeChannel inserted.
C26_OwnEntry == [][C26_OwnEntryStep]_vars

\* A step that dispatches a message.
C28_ReadOnlyStep ==
    Ran("message") =>
        /\ NothingChanged
        /\ last'.sent = << >>
        /\ last'.dones = << >>
        /\ last'.thrown = ""
        /\ Len(last'.notified) <= 1

\* C28: the dispatcher, in each of its branches (not connected, unknown
\* channel, subscribed channel), changes neither connected nor subscribers,
\* sends no request and runs at most one notify callback.
C28_DispatcherReadOnly == [][C28_ReadOnlyStep]_vars

\* A message delivered while two requests wait.
C28_Witness ==
    /\ last.ev = "message"
    /\ Len(last.notified) = 1
    /\ connected
    /\ BagCardinality(inflight) = 2
    /\ Has(subscribers, last.name)

\* The completion callback of a subscribeChannel(ch, f) has just run with a
\* success result.
SubscribeReported ==
    /\ last.answered # << >>
    /\ last.answered[1].path = "/subscribe"
    /\ last.dones # << >>
    /\ last.dones[1].error = "null"

\* The connection as that callback sees it: connected, with ch bound to f.
SubscriptionHeld ==
    /\ last.dones[1].connected
    /\ Has(last.dones[1].subscribers, last.name)
    /\ Get(last.dones[1].subscribers, last.name) = last.fn

\* C27 as stated: whenever the completion callback of a subscribeChannel(ch, f)
\* runs with a success result, the connection is connected and ch is in
\* subscribers bound to f, whatever unsubscribeChannel(ch) or disconnect ran
\* while the request waited.
C27_ReportedIsHeld == SubscribeReported => SubscriptionHeld

\* C27 amended: the same, for a request during whose wait no
\* unsubscribeChannel(ch), no disconnect and no handler of a failure answer to
\* another subscribe request for ch ran; the success handler itself leaves
\* connected and subscribers as they are.
C27_ReportedIsHeldIfUndisturbed ==
    /\ (SubscribeReported /\ last.answered[1].held) => SubscriptionHeld
    /\ SubscribeReported =>
          /\ last.dones[1].connected = connected
          /\ last.dones[1].subscribers = subscribers

\* The answer 304 to an undisturbed subscribe request for b, with a
\* subscribed as well.
C27_Witness ==
    /\ SubscribeReported
    /\ last.answered[1].held
    /\ last.status = 304
    /\ last.dones[1].result = "false"
    /\ last.name = <<"b">>
    /\ Len(subscribers) = 2

\* C24: the subscribe and unsubscribe requests for a channel ch carry the
\* notify url notifyBaseUrl + "/" + ch, and a message pushed to the path of
\* the notify url of a subscribed channel ch runs the callback of the entry
\* of ch, and no other.
C24_NotifyUrlRoundTrip ==
    /\ \A r \in Waiting :
          r.path \in {"/subscribe", "/unsubscribe"} =>
              r.notifyUrl = NotifyBaseUrl \o <<"/">> \o r.name
    /\ connected =>
          \A i \in 1..Len(subscribers), body \in Payloads :
              Route(Conn, UrlPath(NotifyUrl(subscribers[i].name)), body)
                  .ev.notified
                  = <<[fn |-> subscribers[i].fn, payload |-> body]>>

\* The completion callback of a subscribeChannel has just run with the result
\* false.
SubscribeFalse ==
    /\ SubscribeReported
    /\ last.dones[1].result = "false"

\* C22 as stated: with a broker that keeps its registrations and answers 304
\* to a subscribe for a target it holds, the completion callback of a
\* subscribeChannel gets the result false only if the broker held the
\* registration already when the call was accepted (while subscribers did
\* not hold the channel).
C22_FalseMeansDiverged == SubscribeFalse => last.answered[1].remote

\* C22 amended: ... only if the broker held the registration already when the
\* call was accepted, or another subscribe request for the channel waited
\* for its answer at some time while this one did.
C22_FalseMeansDivergedOrRival ==
    SubscribeFalse =>
        \/ last.answered[1].remote
        \/ "/subscribe" \in last.answered[1].rivals

\* The result false for a subscribeChannel that was accepted while the broker
\* held the registration and no other request for the channel waited.
C22_Witness ==
    /\ SubscribeFalse
    /\ last.status = 304
    /\ last.answered[1].remote
    /\ last.answered[1].rivals = {}
    /\ Has(subscribers, last.name)
    /\ last.name \in registered

\* A failure answer to a subscribe request has just been handled and no other
\* request for its channel waits.
SubscribeFailedAlone ==
    /\ SubscribeFailed(last, last.name)
    /\ \A r \in Waiting : r.name # last.name

\* The table and the broker agree that the channel is not subscribed.
InNeither ==
    /\ ~Has(subscribers, last.name)
    /\ last.name \notin registered

\* C23 as stated: once a subscribe request for a channel has been answered
\* with a failure (a status other than 200 and 304, or a transport error) and
\* no other request for the channel waits, the channel is neither in
\* subscribers nor among the broker's registrations.
C23_Reconverged == SubscribeFailedAlone => InNeither

\* C23 amended: the same for a failure status (not a transport error) to a
\* request that was accepted while the broker did not hold the registration
\* and during whose wait no other subscribe or unsubscribe request for the
\* channel waited; in every case the channel is not in subscribers then.
C23_ReconvergedIfUndisturbed ==
    /\ (/\ SubscribeFailedAlone
        /\ last.ev = "response"
        /\ ~last.answered[1].remote
        /\ last.answered[1].rivals = {}) => InNeither
    /\ SubscribeFailedAlone => ~Has(subscribers, last.name)

\* The answer 500 to such a subscribe request.
C23_Witness ==
    /\ SubscribeFailedAlone
    /\ last.status = 500
    /\ ~last.answered[1].remote
    /\ last.answered[1].rivals = {}
    /\ connected
    /\ registered = {}

====
